---- MODULE Spec2Model ----
(***************************************************************************)
(* PriceAlert Pro dashboard client (src/frontend/app.js): the global       *)
(* `state` object, the streaming connection with its reconnect loop, the   *)
(* price store, the session and the alert registry, together with the      *)
(* gateway they talk to.  All client work runs as tasks of one event loop: *)
(* every action below is one task (a handler run to completion, or the     *)
(* part of an async function between two awaits).                          *)
(***************************************************************************)
EXTENDS Integers, Sequences, FiniteSets, TLC

(* ------------------------------ bounds -------------------------------- *)
MaxSockets == 2      \* WebSocket objects alive at once (closed ones are collected)
MaxRetries == 2      \* cap of the ghost counter of consecutive failed attempts
MaxPrice == 2        \* prices carried by frames: 1..MaxPrice
MaxTime == 1         \* timestamps carried by frames: 1..MaxTime
MaxCalls == 2        \* async operations in flight at once
MaxOps == 2          \* user operations (login, logout, create, toggle, delete) over a run
MaxSeed == 2         \* alert rules the gateway holds before the page loads, if any

(* --------------------------- program constants ------------------------ *)
NoToken == 0         \* state.token: null
NoSocket == 0        \* state.ws: null
SavedToken == 1      \* the token found in localStorage at startup, if any

Symbols == {"BTC", "APPLE"}
Quotes == [price : 1..MaxPrice, timestamp : 1..MaxTime]
SocketIds == 1..MaxSockets

VARIABLES
    user,            \* state.user: "null" or the profile's email
    token,           \* state.token
    alerts,          \* state.alerts: sequence of alert entities
    prices,          \* state.prices: symbol -> quote, domain = symbols present
    priceKeys,       \* the keys of state.prices in the order they were added
    ws,              \* state.ws: the socket the manager references
    isConnected,     \* state.isConnected
    storedToken,     \* localStorage 'token'
    cardsShown,      \* the alert list in the DOM shows the cards of state.alerts
    sockets,         \* readyState of every WebSocket object created
    reconnectTimers, \* pending setTimeout(connectWebSocket, RECONNECT_DELAY)
    sent,            \* the messages handed to WebSocket.send()
    initPc,          \* where init() stands
    bootstrap,       \* init()'s GET /prices: "idle", "sent", "done"
    calls,           \* async functions suspended on an HTTP response
    srvAlerts,       \* gateway: the user's alert rules, newest first
    srvNextId,       \* gateway: next alert id
    srvTokens,       \* gateway: the tokens it accepts
    srvNextToken,    \* gateway: next token it issues
    opsLeft,         \* operations the user still starts (bound)
    retries,         \* ghost: closes since the last open, capped
    lastOldPrice,    \* ghost: oldPrice captured while the last frame was handled
    lastFrame,       \* ghost: the last frame handed to onmessage, or the body
                     \*        of GET /prices if that was applied later
    trip,            \* ghost: the create that wrote the registry last
    synced,          \* ghost: a listing was applied and no alert request failed since
    lastOp           \* ghost: the task that ran last, and whether it threw

connVars == <<ws, isConnected, sockets, reconnectTimers, sent, retries>>
priceVars == <<prices, priceKeys, lastOldPrice, lastFrame, bootstrap>>
sessionVars == <<user, token, alerts, storedToken, cardsShown>>
serverVars == <<srvAlerts, srvNextId, srvTokens, srvNextToken>>
vars == <<user, token, alerts, prices, priceKeys, ws, isConnected, storedToken, cardsShown,
          sockets, reconnectTimers, sent, initPc, bootstrap, calls, srvAlerts,
          srvNextId, srvTokens, srvNextToken, opsLeft, retries, lastOldPrice,
          lastFrame, trip, synced, lastOp>>

Op(name, result) == [op |-> name, result |-> result, tok |-> NoToken]

(* ======================= streaming connection ========================= *)

\* A closed WebSocket that the manager no longer references fires no more
\* events; its slot is reclaimed.
Collect(s, cur) ==
    [w \in SocketIds |-> IF s[w] = "CLOSED" /\ w # cur THEN "FREE" ELSE s[w]]

FreeSockets(s) == {w \in SocketIds : s[w] = "FREE"}

LiveSockets == {w \in SocketIds : sockets[w] \in {"CONNECTING", "OPEN"}}

IsOpen(w) == w # NoSocket /\ sockets[w] = "OPEN"

\* The identity of the next WebSocket object: a slot no object occupies (the
\* closed object being replaced gives up its own only when no other is left).
NewSocket ==
    LET free == IF FreeSockets(sockets) # {} THEN FreeSockets(sockets)
                ELSE FreeSockets(Collect(sockets, NoSocket)) IN
    CHOOSE x \in free : \A y \in free : x <= y

\* connectWebSocket() with the Open check dropped.
connectWebSocketUnguarded ==
    /\ FreeSockets(Collect(sockets, NoSocket)) # {}
    /\ ws' = NewSocket
    /\ sockets' = [Collect(sockets, NoSocket) EXCEPT ![NewSocket] = "CONNECTING"]

\* connectWebSocket(): returns at once when state.ws is OPEN, otherwise
\* state.ws = new WebSocket(...) and the four handlers are attached to it.
connectWebSocket ==
    IF IsOpen(ws)
    THEN UNCHANGED <<ws, sockets>>
    ELSE /\ FreeSockets(Collect(sockets, NoSocket)) # {}
         /\ ws' = NewSocket
         /\ sockets' = [Collect(sockets, NoSocket) EXCEPT ![NewSocket] = "CONNECTING"]

\* An onopen that does not raise the connectivity flag.
onopenSilent == isConnected' = isConnected

\* state.ws.onopen
onopen == isConnected' = TRUE

\* onclose scheduling the reconnect twice.
oncloseTwice ==
    /\ isConnected' = FALSE
    /\ reconnectTimers' = reconnectTimers + 2

\* onclose that gives up after MaxRetries consecutive failures.
oncloseCapped ==
    /\ isConnected' = FALSE
    /\ reconnectTimers' = IF retries >= MaxRetries THEN reconnectTimers
                          ELSE reconnectTimers + 1

\* state.ws.onclose
onclose ==
    /\ isConnected' = FALSE
    /\ reconnectTimers' = reconnectTimers + 1

(* ============================ price store ============================= *)

PriceMaps == UNION {[S -> Quotes] : S \in SUBSET Symbols}

\* The orders in which the entries of an object with key set S can be written.
KeyOrders(S) ==
    {q \in [1..Cardinality(S) -> S] : \A i, j \in DOMAIN q : i # j => q[i] # q[j]}

InSeq(q, x) == \E k \in 1..Len(q) : q[k] = x

\* An assignment to a key the object does not have yet adds the key after the
\* ones it has; an assignment to a key it has leaves the key where it is.
RECURSIVE AddKeys(_, _)
AddKeys(keys, ord) ==
    IF ord = <<>> THEN keys
    ELSE AddKeys(IF InSeq(keys, Head(ord)) THEN keys ELSE Append(keys, Head(ord)),
                 Tail(ord))

\* A frame as JSON.parse sees it; `keys` is the order in which the text of a
\* snapshot lists the entries of its `prices`.
Frame(parses, type, hasPrices, map, symbol, price, timestamp) ==
    [parses |-> parses, type |-> type, hasPrices |-> hasPrices, prices |-> map,
     keys |-> <<>>, symbol |-> symbol, price |-> price, timestamp |-> timestamp]

EmptyMap == [s \in {} |-> [price |-> 1, timestamp |-> 1]]

SnapshotFrames ==
    UNION {{[Frame(TRUE, "snapshot", TRUE, m, "", 0, 0) EXCEPT !.keys = ord] :
                ord \in KeyOrders(DOMAIN m)} : m \in PriceMaps}
HeartbeatFrame == Frame(TRUE, "heartbeat", FALSE, EmptyMap, "", 0, 0)
\* a record with a symbol and no known type; its timestamp may be missing (0)
DeltaFrames ==
    {Frame(TRUE, "none", FALSE, EmptyMap, s, p, t) :
        s \in Symbols, p \in 1..MaxPrice, t \in 0..MaxTime}
\* text that JSON.parse rejects; a snapshot with no `prices`; a record with
\* neither a type nor a symbol
MalformedFrames ==
    {Frame(FALSE, "none", FALSE, EmptyMap, "", 0, 0),
     Frame(TRUE, "snapshot", FALSE, EmptyMap, "", 0, 0),
     Frame(TRUE, "none", FALSE, EmptyMap, "", 0, 0)}
Frames == SnapshotFrames \cup {HeartbeatFrame} \cup DeltaFrames \cup MalformedFrames
\* the frames that carry no quote
QuietFrames == {HeartbeatFrame} \cup MalformedFrames

\* A merge that fills in missing symbols only and keeps the quotes it has.
MergePricesKeepsOld(p, m) ==
    [s \in DOMAIN p \cup DOMAIN m |-> IF s \in DOMAIN p THEN p[s] ELSE m[s]]

\* A merge by freshness: a quote held is kept unless the incoming one has a
\* later timestamp.
MergePricesNewest(p, m) ==
    [s \in DOMAIN p \cup DOMAIN m |->
        IF s \notin DOMAIN m THEN p[s]
        ELSE IF s \notin DOMAIN p THEN m[s]
        ELSE IF "timestamp" \in DOMAIN p[s] /\ p[s].timestamp >= m[s].timestamp
        THEN p[s] ELSE m[s]]

\* A merge that keeps the symbols held and blanks the quotes of those the
\* payload does not carry.
MergePricesBlanks(p, m) ==
    [s \in DOMAIN p \cup DOMAIN m |->
        IF s \in DOMAIN m THEN m[s] ELSE [price |-> 0, timestamp |-> 0]]

\* A merge that replaces the store by the payload.
MergePricesReplaces(p, m) == m

\* Object.entries(m).forEach(([symbol, priceData]) => state.prices[symbol] = priceData)
MergePrices(p, m) ==
    [s \in DOMAIN p \cup DOMAIN m |-> IF s \in DOMAIN m THEN m[s] ELSE p[s]]

\* An upsert that copies the fields of the new record over the record held
\* (Object.assign) instead of replacing it.
PutPriceMerged(p, s, d) ==
    [x \in DOMAIN p \cup {s} |->
        IF x # s THEN p[x]
        ELSE IF s \notin DOMAIN p THEN d
        ELSE [k \in DOMAIN p[s] \cup DOMAIN d |->
                 IF k \in DOMAIN d THEN d[k] ELSE p[s][k]]]

\* state.prices[symbol] = data
PutPrice(p, s, d) ==
    [x \in DOMAIN p \cup {s} |-> IF x = s THEN d ELSE p[x]]

\* state.prices[symbol]?.price  (0 stands for undefined)
OldPrice(p, s) == IF s \in DOMAIN p THEN p[s].price ELSE 0

\* The parsed delta frame, the object that is stored as it is.
DeltaData(f) ==
    IF f.timestamp = 0
    THEN [symbol |-> f.symbol, price |-> f.price]
    ELSE [symbol |-> f.symbol, price |-> f.price, timestamp |-> f.timestamp]

\* The outcome of onmessage without its try/catch: a frame that makes
\* JSON.parse or Object.entries throw ends the handler with that error.
FrameKindUncaught(f) ==
    IF ~f.parses THEN "error"
    ELSE IF f.type = "snapshot" THEN (IF f.hasPrices THEN "snapshot" ELSE "error")
    ELSE IF f.type = "heartbeat" THEN "heartbeat"
    ELSE IF f.symbol # "" THEN "delta"
    ELSE "ignored"

\* The branch of onmessage that a frame takes; "dropped" is an exception
\* caught and logged by the handler.
FrameKind(f) ==
    IF ~f.parses THEN "dropped"
    ELSE IF f.type = "snapshot" THEN (IF f.hasPrices THEN "snapshot" ELSE "dropped")
    ELSE IF f.type = "heartbeat" THEN "heartbeat"
    ELSE IF f.symbol # "" THEN "delta"
    ELSE "ignored"

\* A handler whose heartbeat branch empties the store.
onmessageHeartbeatResets(f) ==
    IF ~f.parses
    THEN /\ lastOldPrice' = 0
         /\ UNCHANGED <<prices, priceKeys>>
    ELSE IF f.type = "snapshot"
    THEN IF ~f.hasPrices
         THEN /\ lastOldPrice' = 0
              /\ UNCHANGED <<prices, priceKeys>>
         ELSE /\ prices' = MergePrices(prices, f.prices)
              /\ priceKeys' = AddKeys(priceKeys, f.keys)
              /\ lastOldPrice' = 0
    ELSE IF f.type = "heartbeat"
    THEN /\ lastOldPrice' = 0
         /\ prices' = EmptyMap
         /\ priceKeys' = <<>>
    ELSE IF f.symbol # ""
    THEN /\ lastOldPrice' = OldPrice(prices, f.symbol)
         /\ prices' = PutPrice(prices, f.symbol, DeltaData(f))
         /\ priceKeys' = AddKeys(priceKeys, <<f.symbol>>)
    ELSE /\ lastOldPrice' = 0
         /\ UNCHANGED <<prices, priceKeys>>

\* state.ws.onmessage: every exception is caught and logged.  oldPrice is
\* captured in the delta branch only.
onmessage(f) ==
    IF ~f.parses
    THEN /\ lastOldPrice' = 0
         /\ UNCHANGED <<prices, priceKeys>>
    ELSE IF f.type = "snapshot"
    THEN IF ~f.hasPrices
         THEN /\ lastOldPrice' = 0
              /\ UNCHANGED <<prices, priceKeys>>
         ELSE /\ prices' = MergePrices(prices, f.prices)
              /\ priceKeys' = AddKeys(priceKeys, f.keys)
              /\ lastOldPrice' = 0
    ELSE IF f.type = "heartbeat"
    THEN /\ lastOldPrice' = 0
         /\ UNCHANGED <<prices, priceKeys>>
    ELSE IF f.symbol # ""
    THEN /\ lastOldPrice' = OldPrice(prices, f.symbol)
         /\ prices' = PutPrice(prices, f.symbol, DeltaData(f))
         /\ priceKeys' = AddKeys(priceKeys, <<f.symbol>>)
    ELSE /\ lastOldPrice' = 0
         /\ UNCHANGED <<prices, priceKeys>>

(* ------------------------------ price grid ---------------------------- *)

\* INSTRUMENTS: the symbols of the model in the order of the catalog, and
\* their categories.
Catalog == <<"BTC", "APPLE">>
Category(s) == IF s = "BTC" THEN "crypto" ELSE "stocks"

\* The values state.activeFilter takes: "all" and the filter tabs.
Filters == {"all", "crypto", "stocks", "indices", "commodities"}

\* Object.entries(state.prices)
Entries == [k \in 1..Len(priceKeys) |-> <<priceKeys[k], prices[priceKeys[k]]>>]

\* renderPriceGrid() that ignores the active filter.
renderPriceGridUnfiltered(filter) == Entries

\* renderPriceGrid(): the entries for which a card is drawn, in the order of
\* the cards.
renderPriceGrid(filter) ==
    IF filter # "all"
    THEN SelectSeq(Entries, LAMBDA e : Category(e[1]) = filter)
    ELSE Entries

(* ------------------ events of the streaming transport ------------------ *)

\* The connection is established: readyState becomes OPEN, `open` fires.
WsOpen(w) ==
    /\ sockets[w] = "CONNECTING"
    /\ sockets' = [sockets EXCEPT ![w] = "OPEN"]
    /\ onopen
    /\ retries' = 0
    /\ lastOp' = Op("open", "ok")
    /\ UNCHANGED <<trip, synced, ws, reconnectTimers, sent, priceVars, sessionVars, serverVars,
                   initPc, calls, opsLeft>>

\* The connection is closed or could not be established: readyState becomes
\* CLOSED and `close` fires, once per WebSocket object.
WsClose(w) ==
    /\ sockets[w] \in {"CONNECTING", "OPEN"}
    /\ sockets' = Collect([sockets EXCEPT ![w] = "CLOSED"], ws)
    /\ onclose
    /\ retries' = IF retries < MaxRetries THEN retries + 1 ELSE retries
    /\ lastOp' = Op("close", "ok")
    /\ UNCHANGED <<trip, synced, ws, sent, priceVars, sessionVars, serverVars, initPc, calls,
                   opsLeft>>

\* An error handler that also schedules a reconnect.
WsErrorReconnects(w) ==
    /\ sockets[w] \in {"CONNECTING", "OPEN"}
    /\ reconnectTimers' = reconnectTimers + 1
    /\ lastOp' = Op("error", "ok")
    /\ UNCHANGED <<trip, synced, ws, isConnected, sockets, sent, retries, priceVars,
                   sessionVars, serverVars, initPc, calls, opsLeft>>

\* `error` fires: onerror only logs.
WsError(w) ==
    /\ sockets[w] \in {"CONNECTING", "OPEN"}
    /\ lastOp' = Op("error", "ok")
    /\ UNCHANGED <<trip, synced, connVars, priceVars, sessionVars, serverVars, initPc, calls,
                   opsLeft>>

\* A frame arrives on an open connection.
WsMessage(w, f) ==
    /\ sockets[w] = "OPEN"
    /\ onmessage(f)
    /\ lastFrame' = f
    /\ lastOp' = Op("message", FrameKind(f))
    /\ UNCHANGED <<trip, synced, connVars, bootstrap, sessionVars, serverVars, initPc, calls,
                   opsLeft>>

\* A reconnect timer fires: connectWebSocket().
TimerFire ==
    /\ reconnectTimers > 0
    /\ reconnectTimers' = reconnectTimers - 1
    /\ connectWebSocket
    /\ lastOp' = Op("timer", "ok")
    /\ UNCHANGED <<trip, synced, isConnected, sent, retries, priceVars, sessionVars, serverVars,
                   initPc, calls, opsLeft>>

\* connectWebSocket() called by another script of the page.
ConnectCall ==
    /\ initPc = "ready"
    /\ opsLeft > 0
    /\ opsLeft' = opsLeft - 1
    /\ connectWebSocket
    /\ lastOp' = Op("connect", "ok")
    /\ UNCHANGED <<trip, synced, isConnected, reconnectTimers, sent, retries, priceVars,
                   sessionVars, serverVars, initPc, calls>>

\* sendWebSocketMessage() with the Open check dropped: send() is called on
\* whatever socket state.ws references.
sendWebSocketMessageUnguarded(m) ==
    IF ws # NoSocket THEN sent' = sent \cup {m} ELSE UNCHANGED sent

\* sendWebSocketMessage(message)
sendWebSocketMessage(m) ==
    IF IsOpen(ws) THEN sent' = sent \cup {m} ELSE UNCHANGED sent

\* sendWebSocketMessage() called by a script of the page, each time with a
\* new message (the calls are numbered 1, 2, ...).
SendCall ==
    /\ initPc = "ready"
    /\ opsLeft > 0
    /\ opsLeft' = opsLeft - 1
    /\ sendWebSocketMessage(MaxOps - opsLeft + 1)
    /\ lastOp' = [Op("send", "ok") EXCEPT !.tok = MaxOps - opsLeft + 1]
    /\ UNCHANGED <<trip, synced, ws, isConnected, sockets, reconnectTimers, retries, priceVars,
                   sessionVars, serverVars, initPc, calls>>

(* ====================== session and alert registry ==================== *)

CallIds == 1..MaxCalls
NoAlert == [id |-> 0, active |-> FALSE]
\* `before` and `clean` are ghosts of a create call: state.alerts as it was
\* when createAlert() was called, and whether nothing has written state.alerts
\* since.
IdleCall == [op |-> "idle", pc |-> "idle", st |-> "idle", tok |-> NoToken, arg |-> 0,
             resTok |-> NoToken, resList |-> <<>>, resAlert |-> NoAlert,
             rejected |-> FALSE, before |-> <<>>, clean |-> FALSE]

\* apiRequest()/fetch(): the request leaves with the Authorization header built
\* from state.token as it is when the call is made.
Request(op, pc, tok, arg) ==
    [op |-> op, pc |-> pc, st |-> "sent", tok |-> tok, arg |-> arg,
     resTok |-> NoToken, resList |-> <<>>, resAlert |-> NoAlert,
     rejected |-> FALSE, before |-> <<>>, clean |-> FALSE]

FreeCalls == {i \in CallIds : calls[i].op = "idle"}

Ids(list) == {list[k].id : k \in 1..Len(list)}

\* list.filter(a => a.id !== id)
RECURSIVE Without(_, _)
Without(list, id) ==
    IF list = <<>> THEN <<>>
    ELSE IF Head(list).id = id THEN Without(Tail(list), id)
    ELSE <<Head(list)>> \o Without(Tail(list), id)

\* list.findIndex(a => a.id === id), 0 when there is none
FindIndex(list, id) ==
    IF id \in Ids(list)
    THEN CHOOSE k \in 1..Len(list) :
            list[k].id = id /\ \A j \in 1..(k - 1) : list[j].id # id
    ELSE 0

\* renderAlerts(): cards are drawn only while state.user is set
renderAlerts(u) == cardsShown' = (u # "null")

\* logout() that leaves the persisted token in place.
logoutKeepsStored ==
    /\ user' = "null"
    /\ token' = NoToken
    /\ alerts' = <<>>
    /\ storedToken' = storedToken
    /\ renderAlerts("null")

\* logout()
logout ==
    /\ user' = "null"
    /\ token' = NoToken
    /\ alerts' = <<>>
    /\ storedToken' = NoToken
    /\ renderAlerts("null")

(* ------------------------------ gateway ------------------------------- *)

\* The gateway answers request i.  Alert and profile endpoints need a token
\* it accepts; unknown ids are rejected.
Serve(i) ==
    LET c == calls[i] IN
    /\ c.st = "sent"
    /\ UNCHANGED <<trip, synced, connVars, priceVars, sessionVars, initPc, opsLeft, lastOp>>
    /\ CASE c.pc = "login" ->
              IF c.arg = 1
              THEN /\ calls' = [calls EXCEPT ![i].st = "ok", ![i].resTok = srvNextToken]
                   /\ srvTokens' = srvTokens \cup {srvNextToken}
                   /\ srvNextToken' = srvNextToken + 1
                   /\ UNCHANGED <<srvAlerts, srvNextId>>
              ELSE /\ calls' = [calls EXCEPT ![i].st = "fail"]
                   /\ UNCHANGED serverVars
         [] c.pc = "profile" ->
              /\ calls' = [calls EXCEPT ![i].st =
                              IF c.tok \in srvTokens THEN "ok" ELSE "fail"]
              /\ UNCHANGED serverVars
         [] c.pc = "alerts" ->
              /\ calls' = IF c.tok \in srvTokens
                          THEN [calls EXCEPT ![i].st = "ok", ![i].resList = srvAlerts]
                          ELSE [calls EXCEPT ![i].st = "fail"]
              /\ UNCHANGED serverVars
         [] c.pc = "create" ->
              IF c.tok \in srvTokens
              THEN LET a == [id |-> srvNextId, active |-> TRUE] IN
                   /\ calls' = [calls EXCEPT ![i].st = "ok", ![i].resAlert = a]
                   /\ srvAlerts' = <<a>> \o srvAlerts
                   /\ srvNextId' = srvNextId + 1
                   /\ UNCHANGED <<srvTokens, srvNextToken>>
              ELSE /\ calls' = [calls EXCEPT ![i].st = "fail"]
                   /\ UNCHANGED serverVars
         [] c.pc = "delete" ->
              IF c.tok \in srvTokens /\ c.arg \in Ids(srvAlerts)
              THEN /\ calls' = [calls EXCEPT ![i].st = "ok"]
                   /\ srvAlerts' = Without(srvAlerts, c.arg)
                   /\ UNCHANGED <<srvNextId, srvTokens, srvNextToken>>
              ELSE /\ calls' = [calls EXCEPT ![i].st = "fail"]
                   /\ UNCHANGED serverVars
         [] c.pc = "toggle" ->
              IF c.tok \in srvTokens /\ c.arg \in Ids(srvAlerts)
              THEN LET k == FindIndex(srvAlerts, c.arg)
                       a == [srvAlerts[k] EXCEPT !.active = ~@] IN
                   /\ calls' = [calls EXCEPT ![i].st = "ok", ![i].resAlert = a]
                   /\ srvAlerts' = [srvAlerts EXCEPT ![k] = a]
                   /\ UNCHANGED <<srvNextId, srvTokens, srvNextToken>>
              ELSE /\ calls' = [calls EXCEPT ![i].st = "fail"]
                   /\ UNCHANGED serverVars

\* The request or its response is lost, or the gateway answers 5xx.
NetFail(i) ==
    /\ calls[i].st \in {"sent", "ok"}
    /\ calls' = [calls EXCEPT ![i].st = "fail"]
    /\ UNCHANGED <<trip, synced, connVars, priceVars, sessionVars, serverVars, initPc, opsLeft,
                   lastOp>>

(* --------------------- async functions of the client ------------------- *)

Answered(i, op, pc) ==
    /\ calls[i].op = op
    /\ calls[i].pc = pc
    /\ calls[i].st \in {"ok", "fail"}

\* trip when the last write to state.alerts was not a create, or was a create
\* that another write had overtaken.
NoTrip == [id |-> 0, before |-> <<>>, undone |-> FALSE]

\* The calls after a task has written state.alerts: call i (if any) is over,
\* and the creates still in flight have been overtaken by that write.
Settled(i) ==
    [j \in CallIds |-> IF j = i THEN IdleCall ELSE [calls[j] EXCEPT !.clean = FALSE]]

\* Call i returns, with success iff wrote; when it wrote state.alerts, trip
\* becomes t.
Return(i, wrote, t) ==
    /\ calls' = IF wrote THEN Settled(i) ELSE [calls EXCEPT ![i] = IdleCall]
    /\ trip' = IF wrote THEN t ELSE trip
    /\ synced' = IF calls[i].pc = "alerts" THEN wrote ELSE (synced /\ wrote)

\* A login() that keeps the token in memory only.
LoginResponseForgetsStorage(i) ==
    LET c == calls[i] IN
    /\ Answered(i, "login", "login")
    /\ IF c.st = "fail"
       THEN /\ calls' = [calls EXCEPT ![i] = IdleCall]
            /\ lastOp' = Op("login", "error")
            /\ UNCHANGED sessionVars
       ELSE /\ token' = c.resTok
            /\ storedToken' = storedToken
            /\ calls' = [calls EXCEPT ![i] =
                  [Request("login", "profile", c.resTok, 0) EXCEPT !.resTok = c.resTok]]
            /\ lastOp' = Op("login", "await")
            /\ UNCHANGED <<user, alerts, cardsShown>>
    /\ UNCHANGED <<trip, synced, connVars, priceVars, serverVars, initPc, opsLeft>>

\* A login() that signs the user out when the exchange is rejected.
LoginResponseLogsOut(i) ==
    LET c == calls[i] IN
    /\ Answered(i, "login", "login")
    /\ IF c.st = "fail"
       THEN /\ calls' = [calls EXCEPT ![i] = IdleCall]
            /\ lastOp' = Op("login", "error")
            /\ logout
       ELSE /\ token' = c.resTok
            /\ storedToken' = c.resTok
            /\ calls' = [calls EXCEPT ![i] =
                  [Request("login", "profile", c.resTok, 0) EXCEPT !.resTok = c.resTok]]
            /\ lastOp' = Op("login", "await")
            /\ UNCHANGED <<user, alerts, cardsShown>>
    /\ UNCHANGED <<trip, synced, connVars, priceVars, serverVars, initPc, opsLeft>>

\* login(), from the credential response to the await of fetchUserProfile():
\* a rejected exchange throws; otherwise the token is stored in state and in
\* localStorage and GET /auth/me leaves with it.
LoginResponse(i) ==
    LET c == calls[i] IN
    /\ Answered(i, "login", "login")
    /\ IF c.st = "fail"
       THEN /\ calls' = [calls EXCEPT ![i] = IdleCall]
            /\ lastOp' = Op("login", "error")
            /\ UNCHANGED sessionVars
       ELSE /\ token' = c.resTok
            /\ storedToken' = c.resTok
            /\ calls' = [calls EXCEPT ![i] =
                  [Request("login", "profile", c.resTok, 0) EXCEPT !.resTok = c.resTok]]
            /\ lastOp' = Op("login", "await")
            /\ UNCHANGED <<user, alerts, cardsShown>>
    /\ UNCHANGED <<trip, synced, connVars, priceVars, serverVars, initPc, opsLeft>>

\* fetchUserProfile() that ignores a failed request.
fetchUserProfileNoLogout(ok) ==
    IF ok
    THEN /\ user' = "u"
         /\ UNCHANGED <<token, alerts, storedToken, cardsShown>>
    ELSE UNCHANGED sessionVars

\* fetchUserProfile() after its await: the profile is stored, or logout().
fetchUserProfile(ok) ==
    IF ok
    THEN /\ user' = "u"
         /\ UNCHANGED <<token, alerts, storedToken, cardsShown>>
    ELSE logout

\* fetchUserProfile() returns to login() or init(), which goes on to
\* fetchAlerts(): GET /alerts leaves with state.token as it is now.
ProfileResponse(i) ==
    LET c == calls[i] IN
    /\ c.pc = "profile"
    /\ c.st \in {"ok", "fail"}
    /\ fetchUserProfile(c.st = "ok")
    /\ calls' = [(IF c.st = "ok" THEN calls ELSE Settled(i)) EXCEPT ![i] =
          [Request(c.op, "alerts", token', 0) EXCEPT
              !.resTok = c.resTok, !.rejected = (c.st = "fail")]]
    /\ trip' = IF c.st = "ok" THEN trip ELSE NoTrip
    /\ synced' = (synced /\ c.st = "ok")
    /\ lastOp' = IF c.st = "ok" THEN Op("profile", "ok") ELSE Op("logout", "ok")
    /\ UNCHANGED <<connVars, priceVars, serverVars, initPc, opsLeft>>

\* fetchAlerts() that stores the listing back to front.
fetchAlertsReversed(c) ==
    IF c.st = "ok"
    THEN /\ alerts' = [k \in 1..Len(c.resList) |-> c.resList[Len(c.resList) + 1 - k]]
         /\ renderAlerts(user)
         /\ UNCHANGED <<user, token, storedToken>>
    ELSE UNCHANGED sessionVars

\* fetchAlerts() after its await: the cache is replaced by the listing; a
\* failure is logged and swallowed.
fetchAlerts(c) ==
    IF c.st = "ok"
    THEN /\ alerts' = c.resList
         /\ renderAlerts(user)
         /\ UNCHANGED <<user, token, storedToken>>
    ELSE UNCHANGED sessionVars

\* login() after fetchAlerts(): returns the credential response.
LoginAlertsResponse(i) ==
    LET c == calls[i] IN
    /\ Answered(i, "login", "alerts")
    /\ fetchAlerts(c)
    /\ Return(i, c.st = "ok", NoTrip)
    /\ lastOp' = [op |-> "login", result |-> "ok", tok |-> c.resTok]
    /\ UNCHANGED <<connVars, priceVars, serverVars, initPc, opsLeft>>

\* createAlert() that inserts the entity even when the request failed.
createAlertIgnoresFailure(c) ==
    /\ alerts' = <<c.resAlert>> \o alerts
    /\ renderAlerts(user)
    /\ UNCHANGED <<user, token, storedToken>>

\* createAlert() that pushes the new entity at the end of the list.
createAlertAppends(c) ==
    IF c.st = "ok"
    THEN /\ alerts' = Append(alerts, c.resAlert)
         /\ renderAlerts(user)
         /\ UNCHANGED <<user, token, storedToken>>
    ELSE UNCHANGED sessionVars

\* createAlert() after its await
createAlert(c) ==
    IF c.st = "ok"
    THEN /\ alerts' = <<c.resAlert>> \o alerts
         /\ renderAlerts(user)
         /\ UNCHANGED <<user, token, storedToken>>
    ELSE UNCHANGED sessionVars

CreateResponse(i) ==
    LET c == calls[i] IN
    /\ Answered(i, "create", "create")
    /\ createAlert(c)
    /\ Return(i, c.st = "ok",
              IF c.clean
              THEN [id |-> c.resAlert.id, before |-> c.before, undone |-> FALSE]
              ELSE NoTrip)
    /\ lastOp' = Op("create", IF c.st = "ok" THEN "ok" ELSE "error")
    /\ UNCHANGED <<connVars, priceVars, serverVars, initPc, opsLeft>>

\* deleteAlert() whose filter keeps the entries it should remove.
deleteAlertInverted(c) ==
    IF c.st = "ok"
    THEN /\ alerts' = SelectSeq(alerts, LAMBDA a : a.id = c.arg)
         /\ renderAlerts(user)
         /\ UNCHANGED <<user, token, storedToken>>
    ELSE UNCHANGED sessionVars

\* deleteAlert() after its await
deleteAlert(c) ==
    IF c.st = "ok"
    THEN /\ alerts' = Without(alerts, c.arg)
         /\ renderAlerts(user)
         /\ UNCHANGED <<user, token, storedToken>>
    ELSE UNCHANGED sessionVars

DeleteResponse(i) ==
    LET c == calls[i] IN
    /\ Answered(i, "delete", "delete")
    /\ deleteAlert(c)
    /\ Return(i, c.st = "ok",
              IF trip.id # 0 /\ trip.id = c.arg /\ ~trip.undone
              THEN [trip EXCEPT !.undone = TRUE]
              ELSE NoTrip)
    /\ lastOp' = Op("delete", IF c.st = "ok" THEN "ok" ELSE "error")
    /\ UNCHANGED <<connVars, priceVars, serverVars, initPc, opsLeft>>

\* toggleAlert() that flips the flag of the local entry instead of taking the
\* entity of the response.
toggleAlertFlipsLocal(c) ==
    IF c.st = "ok" /\ FindIndex(alerts, c.arg) # 0
    THEN /\ alerts' = [alerts EXCEPT ![FindIndex(alerts, c.arg)].active = ~@]
         /\ renderAlerts(user)
         /\ UNCHANGED <<user, token, storedToken>>
    ELSE UNCHANGED sessionVars

\* toggleAlert() after its await
toggleAlert(c) ==
    IF c.st = "ok" /\ FindIndex(alerts, c.arg) # 0
    THEN /\ alerts' = [alerts EXCEPT ![FindIndex(alerts, c.arg)] = c.resAlert]
         /\ renderAlerts(user)
         /\ UNCHANGED <<user, token, storedToken>>
    ELSE UNCHANGED sessionVars

ToggleResponse(i) ==
    LET c == calls[i] IN
    /\ Answered(i, "toggle", "toggle")
    /\ toggleAlert(c)
    /\ Return(i, c.st = "ok", NoTrip)
    /\ lastOp' = Op("toggle", IF c.st = "ok" THEN "ok" ELSE "error")
    /\ UNCHANGED <<connVars, priceVars, serverVars, initPc, opsLeft>>

(* ----------------------------- user actions ---------------------------- *)

NextFree == CHOOSE i \in FreeCalls : \A j \in FreeCalls : i <= j

Start(req) ==
    /\ initPc = "ready"
    /\ opsLeft > 0
    /\ FreeCalls # {}
    /\ opsLeft' = opsLeft - 1
    /\ calls' = [calls EXCEPT ![NextFree] = req]

\* The auth form is submitted: login(email, password) starts; cred = 1 stands
\* for credentials the gateway accepts.  The request carries no bearer token.
Login(cred) ==
    /\ Start(Request("login", "login", NoToken, cred))
    /\ lastOp' = Op("login", "call")
    /\ UNCHANGED <<trip, synced, connVars, priceVars, sessionVars, serverVars, initPc>>

\* The alert form is submitted (the modal opens only for a signed-in user).
CreateClick ==
    /\ user # "null"
    /\ Start([Request("create", "create", token, 0) EXCEPT
                 !.before = alerts, !.clean = TRUE])
    /\ lastOp' = Op("create", "call")
    /\ UNCHANGED <<trip, synced, connVars, priceVars, sessionVars, serverVars, initPc>>

\* The delete button of a rendered alert card is clicked and confirmed.
DeleteClick(id) ==
    /\ cardsShown
    /\ id \in Ids(alerts)
    /\ Start(Request("delete", "delete", token, id))
    /\ lastOp' = Op("delete", "call")
    /\ UNCHANGED <<trip, synced, connVars, priceVars, sessionVars, serverVars, initPc>>

\* The toggle of a rendered alert card is clicked.
ToggleClick(id) ==
    /\ cardsShown
    /\ id \in Ids(alerts)
    /\ Start(Request("toggle", "toggle", token, id))
    /\ lastOp' = Op("toggle", "call")
    /\ UNCHANGED <<trip, synced, connVars, priceVars, sessionVars, serverVars, initPc>>

\* The logout button (present only while state.user is set) is clicked.
LogoutClick ==
    /\ initPc = "ready"
    /\ user # "null"
    /\ opsLeft > 0
    /\ opsLeft' = opsLeft - 1
    /\ logout
    /\ calls' = Settled(0)
    /\ trip' = NoTrip
    /\ synced' = FALSE
    /\ lastOp' = Op("logout", "ok")
    /\ UNCHANGED <<connVars, priceVars, serverVars, initPc>>

(* -------------------------------- init() ------------------------------- *)

\* init() from initEventListeners() on: the listeners are registered, the
\* stream is connected and GET /prices leaves.
initTail ==
    /\ initPc' = "ready"
    /\ connectWebSocket
    /\ bootstrap' = "sent"
    /\ UNCHANGED <<isConnected, reconnectTimers, sent, retries, prices, priceKeys,
                   lastOldPrice, lastFrame>>

\* DOMContentLoaded: init() up to its first await.
InitStart ==
    /\ initPc = "load"
    /\ IF storedToken # NoToken
       THEN /\ token' = storedToken
            /\ calls' = [calls EXCEPT ![1] = Request("init", "profile", storedToken, 0)]
            /\ initPc' = "restore"
            /\ lastOp' = Op("init", "await")
            /\ UNCHANGED <<user, alerts, storedToken, cardsShown, connVars, priceVars>>
       ELSE /\ initTail
            /\ lastOp' = Op("init", "fresh")
            /\ UNCHANGED <<sessionVars, calls>>
    /\ UNCHANGED <<trip, synced, serverVars, opsLeft>>

\* init() after fetchAlerts(): restore is over, the rest of init() runs.
InitAlertsResponse(i) ==
    LET c == calls[i] IN
    /\ Answered(i, "init", "alerts")
    /\ fetchAlerts(c)
    /\ Return(i, c.st = "ok", NoTrip)
    /\ initTail
    /\ lastOp' = Op("init", IF c.rejected THEN "rejected"
                            ELSE IF c.st = "ok" THEN "restored" ELSE "unlisted")
    /\ UNCHANGED <<serverVars, opsLeft>>

\* init() after GET /prices: a usable response is merged into the store.
BootstrapResponse(ok, m) ==
    /\ bootstrap = "sent"
    /\ bootstrap' = "done"
    /\ prices' = IF ok THEN MergePrices(prices, m) ELSE prices
    /\ \E ord \in KeyOrders(DOMAIN m) :
          /\ priceKeys' = IF ok THEN AddKeys(priceKeys, ord) ELSE priceKeys
          /\ lastFrame' = IF ok
                          THEN [Frame(TRUE, "rest", TRUE, m, "", 0, 0) EXCEPT !.keys = ord]
                          ELSE lastFrame
    /\ lastOp' = Op("bootstrap", IF ok THEN "ok" ELSE "error")
    /\ UNCHANGED <<trip, synced, connVars, lastOldPrice, sessionVars, serverVars,
                   initPc, calls, opsLeft>>

(* ---------------------------- specifications --------------------------- *)

SeedAlerts(n) == [k \in 1..n |-> [id |-> n + 1 - k, active |-> TRUE]]

Init ==
    /\ user = "null"
    /\ token = NoToken
    /\ alerts = <<>>
    /\ prices = EmptyMap
    /\ priceKeys = <<>>
    /\ ws = NoSocket
    /\ isConnected = FALSE
    /\ storedToken \in {NoToken, SavedToken}
    /\ cardsShown = FALSE
    /\ sockets = [w \in SocketIds |-> "FREE"]
    /\ reconnectTimers = 0
    /\ sent = {}
    /\ initPc = "load"
    /\ bootstrap = "idle"
    /\ calls = [i \in CallIds |-> IdleCall]
    /\ \E n \in {0, MaxSeed} : srvAlerts = SeedAlerts(n) /\ srvNextId = n + 1
    /\ srvTokens \in {{}, {SavedToken}}
    /\ srvNextToken = SavedToken + 1
    /\ opsLeft = MaxOps
    /\ retries = 0
    /\ lastOldPrice = 0
    /\ lastFrame = HeartbeatFrame
    /\ trip = NoTrip
    /\ synced = FALSE
    /\ lastOp = Op("load", "ok")

\* The streaming connection on a page that starts with no persisted token and
\* whose user stays anonymous; the store is filled by GET /prices, and the
\* frames are those that carry no quote (the others are under SpecPrices).
NextConn ==
    \/ InitStart
    \/ \E w \in SocketIds : WsOpen(w)
    \/ \E w \in SocketIds : WsClose(w)
    \/ \E w \in SocketIds : WsError(w)
    \/ \E w \in SocketIds, f \in QuietFrames : WsMessage(w, f)
    \/ TimerFire
    \/ \E ok \in BOOLEAN, m \in PriceMaps : BootstrapResponse(ok, m)

InitConn == Init /\ storedToken = NoToken /\ srvTokens = {} /\ srvAlerts = <<>>

SpecConn == InitConn /\ [][NextConn]_vars

\* The connection manager with connectWebSocket() also called from outside
\* init() and the reconnect loop, in any state of the connection.
NextConnApi ==
    \/ InitStart
    \/ \E w \in SocketIds : WsOpen(w)
    \/ \E w \in SocketIds : WsClose(w)
    \/ \E w \in SocketIds : WsError(w)
    \/ TimerFire
    \/ ConnectCall

SpecConnApi == InitConn /\ [][NextConnApi]_vars

\* The reconnect loop alone (frames touch only the price store), with the
\* reconnect timer firing once its delay has elapsed.
NextReconnect ==
    \/ InitStart
    \/ \E w \in SocketIds : WsOpen(w)
    \/ \E w \in SocketIds : WsClose(w)
    \/ \E w \in SocketIds : WsError(w)
    \/ TimerFire
    \/ \E ok \in BOOLEAN, m \in PriceMaps : BootstrapResponse(ok, m)

LiveSpecConn == InitConn /\ [][NextReconnect]_vars /\ WF_vars(TimerFire)

\* The connection manager with sendWebSocketMessage() called in any state of
\* the connection.
NextSend ==
    \/ InitStart
    \/ \E w \in SocketIds : WsOpen(w)
    \/ \E w \in SocketIds : WsClose(w)
    \/ \E w \in SocketIds : WsError(w)
    \/ TimerFire
    \/ SendCall

SpecSend == InitConn /\ [][NextSend]_vars

\* The price store: every frame the stream can deliver over a connection
\* that stays up, and the response of GET /prices.
NextPrices ==
    \/ InitStart
    \/ \E w \in SocketIds : WsOpen(w)
    \/ \E w \in SocketIds, f \in Frames : WsMessage(w, f)
    \/ \E ok \in BOOLEAN, m \in PriceMaps : BootstrapResponse(ok, m)

SpecPrices == InitConn /\ [][NextPrices]_vars

\* The session and the alert registry against the gateway; the stream that
\* init() opens stays as it is (its events touch none of these variables).
NextSession ==
    \/ InitStart
    \/ \E i \in CallIds : Serve(i)
    \/ \E i \in CallIds : NetFail(i)
    \/ \E i \in CallIds : LoginResponse(i)
    \/ \E i \in CallIds : ProfileResponse(i)
    \/ \E i \in CallIds : LoginAlertsResponse(i)
    \/ \E i \in CallIds : InitAlertsResponse(i)
    \/ \E i \in CallIds : CreateResponse(i)
    \/ \E i \in CallIds : DeleteResponse(i)
    \/ \E i \in CallIds : ToggleResponse(i)
    \/ \E cred \in {0, 1} : Login(cred)
    \/ CreateClick
    \/ \E id \in 1..(MaxSeed + MaxOps) : DeleteClick(id)
    \/ \E id \in 1..(MaxSeed + MaxOps) : ToggleClick(id)
    \/ LogoutClick

SpecSession == Init /\ [][NextSession]_vars

\* The store through the whole life of the page: startup, the stream with its
\* closes and reconnections, login and logout.  Only the symbols held matter
\* here: the quotes are all the same, a payload carries one symbol at most,
\* and the user signs in when no request is in flight.
UnitQuote == [price |-> 1, timestamp |-> 1]
StoreMaps ==
    {m \in PriceMaps : Cardinality(DOMAIN m) <= 1 /\ \A s \in DOMAIN m : m[s] = UnitQuote}
StoreFrames ==
    {f \in SnapshotFrames : f.prices \in StoreMaps}
        \cup {f \in DeltaFrames : f.price = 1 /\ f.timestamp = 1}

NextStore ==
    \/ InitStart
    \/ \E w \in SocketIds : WsOpen(w)
    \/ \E w \in SocketIds : WsClose(w)
    \/ \E w \in SocketIds, f \in StoreFrames : WsMessage(w, f)
    \/ TimerFire
    \/ \E ok \in BOOLEAN, m \in StoreMaps : BootstrapResponse(ok, m)
    \/ \E i \in CallIds : Serve(i)
    \/ \E i \in CallIds : LoginResponse(i)
    \/ \E i \in CallIds : ProfileResponse(i)
    \/ \E i \in CallIds : LoginAlertsResponse(i)
    \/ Login(1) /\ FreeCalls = CallIds
    \/ LogoutClick

SpecStore == InitConn /\ [][NextStore]_vars

(* ================================ claims =============================== *)

OpenSockets == {w \in SocketIds : sockets[w] = "OPEN"}
Closed == ws # NoSocket /\ sockets[ws] = "CLOSED"
Connecting == ws # NoSocket /\ sockets[ws] = "CONNECTING"

C3_ConnectWhileOpenIsNoOp ==
    [][(lastOp'.op = "connect" /\ IsOpen(ws)) =>
          UNCHANGED <<connVars, priceVars, sessionVars, serverVars, initPc, calls>>]_vars

\* C3 witness: connectWebSocket() has just returned and the connection that
\* was Open before the call is still the referenced, Open one.
C3_Witness == lastOp.op = "connect" /\ IsOpen(ws) /\ isConnected

\* C4: whenever the referenced connection is closed a reconnect timer is
\* pending, and (the timer firing once its delay is over) a new connection
\* attempt follows, after any number of consecutive failures.
C4_ReconnectForever ==
    /\ [](Closed => reconnectTimers >= 1)
    /\ (Closed ~> Connecting)

\* C4 witness: the timer has fired and a new attempt is under way after
\* MaxRetries consecutive failed attempts.
C4_Witness == lastOp.op = "timer" /\ retries = MaxRetries /\ Connecting

RegistryOps == {"alerts", "create", "toggle", "delete"}

\* The step in which the client consumes the failed response of call i.
FailureConsumed(i) ==
    /\ calls[i].st = "fail"
    /\ calls[i].pc \in RegistryOps
    /\ calls'[i].op = "idle"

C6_SessionWhole == (token = NoToken) <=> (user = "null")

\* C7: no two entries of the local alert registry have the same id.
C7_UniqueIds ==
    \A j, k \in 1..Len(alerts) : j # k => alerts[j].id # alerts[k].id

\* C8: when the profile fetch of the startup restore is rejected, then at the
\* end of the restore the persisted token, the token in memory and the
\* profile are absent and the alert registry is empty.
C8_RejectedRestoreClears ==
    lastOp = Op("init", "rejected") =>
        /\ storedToken = NoToken
        /\ token = NoToken
        /\ user = "null"
        /\ alerts = <<>>

\* C8 witness: the restore has just ended, its profile fetch having been
\* refused by a gateway that no longer accepts the persisted token.
C8_Witness ==
    /\ lastOp = Op("init", "rejected")
    /\ SavedToken \notin srvTokens
    /\ srvAlerts # <<>>

\* C9: when login() returns without an error the session is Authenticated:
\* the token in memory and the persisted token are the one the gateway
\* returned and the profile is set.
C9_LoginOkAuthenticated ==
    (lastOp.op = "login" /\ lastOp.result = "ok") =>
        /\ token = lastOp.tok
        /\ storedToken = lastOp.tok
        /\ user # "null"

\* C10: right after logout() the token in memory, the persisted token and the
\* profile are absent and the alert registry is empty.
C10_LogoutClears ==
    lastOp.op = "logout" =>
        /\ token = NoToken
        /\ storedToken = NoToken
        /\ user = "null"
        /\ alerts = <<>>

\* C10 witness: logout() has just run on a page whose user had started
\* operations and whose gateway holds alert rules.
C10_Witness ==
    /\ lastOp.op = "logout"
    /\ opsLeft < MaxOps
    /\ srvAlerts # <<>>

(* ------------------------------ price store --------------------------- *)

\* C11: once a snapshot frame has been applied, the store holds, for every
\* symbol the snapshot carries, exactly the snapshot's quote, whatever quote
\* it held for that symbol before.
C11_SnapshotApplied ==
    (lastOp.op = "message" /\ lastFrame \in SnapshotFrames) =>
        \A s \in DOMAIN lastFrame.prices :
            s \in DOMAIN prices /\ prices[s] = lastFrame.prices[s]

\* C11 witness: a snapshot listing BTC before APPLE has just been applied to
\* a store that held a quote of APPLE and none of BTC.
C11_Witness ==
    /\ lastOp = Op("message", "snapshot")
    /\ lastFrame.keys = <<"BTC", "APPLE">>
    /\ priceKeys = <<"APPLE", "BTC">>

\* The step in which onmessage handles a delta frame.
DeltaHandled == lastOp'.op = "message" /\ lastFrame' \in DeltaFrames

\* C12 as stated: a delta for a symbol whose quote is P captures P, the whole
\* quote, as the previous value (nothing when the store has no quote for the
\* symbol) and leaves the store holding the delta's record in place of P.
C12_DeltaCapturesQuote ==
    [][DeltaHandled =>
          LET s == lastFrame'.symbol IN
          /\ prices'[s] = DeltaData(lastFrame')
          /\ IF s \in DOMAIN prices
             THEN [price |-> lastOldPrice'] = prices[s]
             ELSE lastOldPrice' = 0]_vars

\* C12 amended: the value captured is the price of P only (nothing when the
\* store has no quote for the symbol); the store then holds the delta's
\* record in place of P, with no field of P left in it.
C12_DeltaCapturesPrice ==
    [][DeltaHandled =>
          LET s == lastFrame'.symbol IN
          /\ prices'[s] = DeltaData(lastFrame')
          /\ lastOldPrice' = IF s \in DOMAIN prices THEN prices[s].price ELSE 0]_vars

\* C12 witness: a delta without a timestamp has just replaced a quote of
\* another price.
C12_Witness ==
    /\ lastOp = Op("message", "delta")
    /\ lastFrame.timestamp = 0
    /\ lastOldPrice # 0
    /\ lastOldPrice # lastFrame.price

\* C13: a frame that is neither a snapshot, a heartbeat nor a delta (text
\* that does not parse, a snapshot without a prices map, a record with no type
\* and no symbol) leaves the price store as it was, ends the handler without
\* an error, and leaves the connection as it was: Open, with no reconnect
\* scheduled.
C13_MalformedDiscarded ==
    [][(lastOp'.op = "message" /\ lastFrame' \in MalformedFrames) =>
          /\ prices' = prices /\ priceKeys' = priceKeys
          /\ lastOp'.result # "error"
          /\ ws' = ws /\ sockets' = sockets /\ isConnected' = isConnected
          /\ reconnectTimers' = reconnectTimers
          /\ \E w \in SocketIds : sockets'[w] = "OPEN"]_vars

\* C13 witness: a frame has just been dropped by a page whose store holds
\* quotes and whose connection, set up by a reconnect, is Open with no timer
\* pending.
C13_Witness ==
    /\ lastOp = Op("message", "dropped")
    /\ prices # EmptyMap
    /\ IsOpen(ws) /\ ws # 1 /\ isConnected
    /\ reconnectTimers = 0

\* C14: a message goes out only in the step of the sendWebSocketMessage()
\* call it was passed to, and only if the referenced connection is Open at
\* that call; a message passed in any other state never goes out, whatever
\* the connection does later.
C14_SendOnlyWhenOpen ==
    [][\A m \in 1..MaxOps :
          (m \in sent' /\ m \notin sent) =>
              (lastOp'.op = "send" /\ lastOp'.tok = m /\ IsOpen(ws))]_vars

\* C14 witness: the first message was passed while the connection was not
\* Open and has not gone out; the connection has opened since and a later
\* message has just gone out over it.
C14_Witness ==
    /\ lastOp.op = "send"
    /\ 1 \notin sent
    /\ sent # {}
    /\ opsLeft < MaxOps - 1

(* ---------------------------- alert registry -------------------------- *)

\* The step in which the client consumes the successful response of the
\* create, delete or toggle call i.
Succeeded(i, pc) ==
    /\ calls[i].pc = pc
    /\ calls[i].st = "ok"
    /\ calls'[i].op = "idle"

\* C15: a successful create puts the entity the gateway returned at the front
\* of the registry; the entries held before follow it, the same and in the
\* same order, and the registry is one entry longer.
C15_CreateInsertsAtFront ==
    [][\A i \in CallIds : Succeeded(i, "create") =>
          /\ Len(alerts') = Len(alerts) + 1
          /\ Head(alerts') = calls[i].resAlert
          /\ Tail(alerts') = alerts]_vars

\* C15 witness: a create has just succeeded on a registry that held an entry
\* already.
C15_Witness ==
    /\ lastOp = Op("create", "ok")
    /\ Len(alerts) >= 2
    /\ alerts[1].id # alerts[2].id

\* C16: in every state the registry is ordered most recently created first:
\* no entry comes before one the gateway created later (ids grow with the
\* time of creation).
C16_NewestFirst ==
    \A j, k \in 1..Len(alerts) : j < k => alerts[j].id >= alerts[k].id

\* C17: when a create has succeeded and a delete of the id it returned has
\* succeeded after it, and nothing else has written the registry (no list,
\* create, toggle, delete or logout has completed) between the call of the
\* create and the return of the delete, the registry is as it was when the
\* create was called: same length, same entries, same order.
C17_CreateDeleteRestores == trip.undone => alerts = trip.before

\* C17 witness: the delete of a rule just created has returned, on a registry
\* that held entries when the create was called.
C17_Witness ==
    /\ lastOp = Op("delete", "ok")
    /\ trip.undone
    /\ trip.before # <<>>

\* C18: a successful toggle of an id puts the entity the gateway returned in
\* the place of the registry entry with that id, whole, at the same position,
\* and leaves every other entry as it was; when no entry has that id the
\* registry stays as it was; either way the call ends without an error.
C18_ToggleReplacesInPlace ==
    [][\A i \in CallIds : Succeeded(i, "toggle") =>
          LET hits == {k \in 1..Len(alerts) : alerts[k].id = calls[i].arg} IN
          /\ lastOp'.result = "ok"
          /\ Len(alerts') = Len(alerts)
          /\ \A k \in 1..Len(alerts) :
                alerts'[k] = IF k \in hits /\ \A j \in hits : k <= j
                             THEN calls[i].resAlert ELSE alerts[k]]_vars

\* C18 witness: a toggle has just returned and the second entry of the
\* registry is the switched-off entity of the gateway.
C18_Witness ==
    /\ lastOp = Op("toggle", "ok")
    /\ Len(alerts) >= 2
    /\ ~alerts[2].active
    /\ alerts[1].active

\* C19: when the page starts with a persisted token, the profile fetch
\* succeeds and the listing succeeds, the registry is, once the listing is
\* applied, exactly the listing of the gateway, in the gateway's order.
C19_RestoreLoadsListing ==
    [][\A i \in CallIds :
          (/\ Answered(i, "init", "alerts")
           /\ calls[i].st = "ok"
           /\ ~calls[i].rejected
           /\ calls'[i].op = "idle") =>
              (alerts' = calls[i].resList /\ alerts' = srvAlerts)]_vars

\* C19 witness: the restore has just ended with the listing applied, and the
\* listing holds as many rules as the gateway can hold at page load.
C19_Witness ==
    /\ lastOp = Op("init", "restored")
    /\ Len(alerts) = MaxSeed
    /\ user # "null"

(* ------------------------------ price grid ---------------------------- *)

\* The store entries of a category ("all": every entry).
Matching(filter) ==
    {s \in DOMAIN prices : filter = "all" \/ Category(s) = filter}

\* The matching entries in the order of the instrument catalog.
CatalogView(filter) ==
    LET syms == SelectSeq(Catalog, LAMBDA s : s \in Matching(filter)) IN
    [k \in 1..Len(syms) |-> <<syms[k], prices[syms[k]]>>]

\* The k at which x stands in q.
Pos(q, x) == CHOOSE k \in 1..Len(q) : q[k] = x

NoAlertRequest == \A i \in CallIds : calls[i].pc \notin RegistryOps

\* C21: whenever no alert request is in flight, the session is Authenticated
\* and every alert request since the last listing that was applied has
\* succeeded, the ids in the local registry are the ids of the rules the
\* gateway holds, in whatever order the responses of concurrent requests
\* arrived.
C21_IdsMatchGateway ==
    (NoAlertRequest /\ token # NoToken /\ user # "null" /\ synced) =>
        Ids(alerts) = Ids(srvAlerts)

(* ----------------------- price store, continued ------------------------ *)

\* The step applies a payload of quotes: a snapshot or a delta of the stream,
\* or the body of GET /prices.
PayloadApplied ==
    \/ lastOp' = Op("bootstrap", "ok")
    \/ lastOp'.op = "message" /\ lastOp'.result \in {"snapshot", "delta"}

\* The symbols a payload carries, and the quote it carries for one of them.
Carried(f) == IF f.symbol # "" THEN {f.symbol} ELSE DOMAIN f.prices
QuoteIn(f, s) == IF f.symbol # "" THEN DeltaData(f) ELSE f.prices[s]

C23_ErrorChangesNothing ==
    [][/\ lastOp'.op = "error" =>
            UNCHANGED <<connVars, priceVars, sessionVars, initPc, calls>>
       /\ reconnectTimers' > reconnectTimers => lastOp'.op = "close"]_vars

\* C23 witness: an error signal has just been handled on a connection that is
\* still open, and no reconnection is scheduled.
C23_Witness ==
    /\ lastOp = Op("error", "ok")
    /\ IsOpen(ws)
    /\ isConnected
    /\ reconnectTimers = 0

\* C24: a heartbeat frame changes neither the store, nor the alert registry,
\* nor the session, nor the connection.
C24_HeartbeatChangesNothing ==
    [][lastOp' = Op("message", "heartbeat") =>
           UNCHANGED <<prices, priceKeys, sessionVars, connVars, calls, initPc>>]_vars

\* C24 witness: a heartbeat has just been handled on the open connection
\* while the store holds quotes.
C24_Witness ==
    /\ lastOp = Op("message", "heartbeat")
    /\ lastFrame = HeartbeatFrame
    /\ prices # EmptyMap
    /\ IsOpen(ws)
    /\ isConnected

\* C25: a symbol the store holds a quote for is held in every later state:
\* no frame, snapshot, bootstrap response, close, reconnection, login or
\* logout removes a symbol from the store.
C25_SymbolsStay == [][DOMAIN prices \subseteq DOMAIN prices']_vars

\* C25 witness: the store holds both symbols after the user has signed in and
\* out again and the connection has closed, a reconnection being scheduled.
C25_Witness ==
    /\ lastOp = Op("logout", "ok")
    /\ DOMAIN prices = Symbols
    /\ ~isConnected
    /\ reconnectTimers = 1
    /\ bootstrap = "done"

(* -------------------------- session, continued ------------------------- *)

\* C26: in every reachable state in which the session is Anonymous (no
\* token, no profile) the alert registry is empty, also when the response of
\* a list, create or toggle request issued before logout() arrives after it.
C26_AnonymousHasNoAlerts ==
    (token = NoToken /\ user = "null") => alerts = <<>>

(* ----------------------- price store, once more ------------------------ *)

\* C27: a snapshot leaves the quote of every symbol it does not carry as it
\* was.
C27_SnapshotKeepsOthers ==
    [][lastOp' = Op("message", "snapshot") =>
           \A s \in DOMAIN prices \ DOMAIN lastFrame'.prices :
               s \in DOMAIN prices' /\ prices'[s] = prices[s]]_vars

\* C27 witness: a snapshot carrying BTC only has just been applied, and the
\* store still holds for APPLE the record a delta frame had put there.
C27_Witness ==
    /\ lastOp = Op("message", "snapshot")
    /\ DOMAIN lastFrame.prices = {"BTC"}
    /\ "APPLE" \in DOMAIN prices
    /\ "symbol" \in DOMAIN prices["APPLE"]

(* --------------------------- session, once more ------------------------ *)

\* The step in which login() of call i sees its credential exchange rejected.
LoginRejected(i) ==
    /\ calls[i].op = "login"
    /\ calls[i].pc = "login"
    /\ calls[i].st = "fail"
    /\ calls'[i] # calls[i]

\* C28: a login() whose credential exchange is rejected raises an error,
\* leaves the token, the persisted token, the profile and the alert registry
\* as they were, and issues neither a profile nor a list request.
C28_RejectedLoginChangesNothing ==
    [][\A i \in CallIds : LoginRejected(i) =>
           /\ lastOp' = Op("login", "error")
           /\ UNCHANGED <<token, storedToken, user, alerts>>
           /\ calls' = [calls EXCEPT ![i] = IdleCall]]_vars

\* C28 witness: a login() has just been rejected on a page whose user is
\* signed in and has alerts.
C28_Witness ==
    /\ lastOp = Op("login", "error")
    /\ token # NoToken
    /\ storedToken = token
    /\ user # "null"
    /\ alerts # <<>>

\* The step changes the token in memory or the persisted one.
TokenChange == token' # token \/ storedToken' # storedToken

\* C29: once startup has read the persisted token, the token in memory
\* equals the persisted token in every state between tasks; login() sets
\* both to the token issued, logout() clears both, and no other operation
\* changes either.
C29_TokenMatchesStorage ==
    [][/\ initPc' # "load" => token' = storedToken'
       /\ (initPc # "load" /\ TokenChange) =>
             \/ /\ lastOp' = Op("login", "await")
                /\ token' # NoToken
                /\ storedToken' = token'
             \/ /\ token' = NoToken
                /\ storedToken' = NoToken
                /\ user' = "null"
                /\ alerts' = <<>>]_vars

\* C29 witness: login() has just stored the token the gateway issued, in
\* memory and in localStorage, in place of the one restored at startup,
\* whose profile is still shown.
C29_Witness ==
    /\ lastOp = Op("login", "await")
    /\ token \notin {NoToken, SavedToken}
    /\ storedToken = token
    /\ user # "null"

(* ------------------------- connection, once more ----------------------- *)

====
